---- MODULE Spec2Model ----
(***************************************************************************)
(* kube-sherlock: the query orchestrator (ai.Service.QueryWithMCP), the    *)
(* tool executor (mcp.MCPService.ExecuteTool and its five handlers) and    *)
(* the resource gatherer (kubernetes.Service.GatherResources, GetPodLogs). *)
(*                                                                         *)
(* Text is a sequence of tokens.  A token is a string that stands for a    *)
(* run of characters of the Go string: a brace, a fence marker, a JSON     *)
(* field with its value, a word of prose.  "" of Go is the empty sequence. *)
(***************************************************************************)
EXTENDS Integers, Sequences, FiniteSets, TLC

\* ------------------------------------------------------------------------
\* Bounds of the model
\* ------------------------------------------------------------------------
MaxJunk == 3        \* longest model text enumerated token by token
MaxTypes == 3       \* longest resourceTypes list of a gather call
MaxSecrets == 1     \* most items a secrets list of the cluster holds
MaxChunks == 2      \* most chunks a pod log stream delivers
MaxQueries == 2     \* most requests that are served at the same time

\* ------------------------------------------------------------------------
\* Tokens of a model text
\* ------------------------------------------------------------------------
NoText == << >>

\* the fence markers of a markdown code block, three backquotes each
FenceJSON == "~~~json"
Fence == "~~~"
LBrace == "{"
RBrace == "}"
Quote == "\""
Newline == "\n"
Word == "w"
Null == "null"
ResponseOpen == "response:\""
ArgumentsKey == "arguments:"

\* the characters a string literal of the JSON text may hold
StringChars == {Word, LBrace, RBrace, FenceJSON, Fence, Null}

ActionOfTok ==
  ("action:use_tool" :> <<"use_tool">>) @@ ("action:answer" :> <<"answer">>)
    @@ ("action:other" :> <<"other">>)

ToolOfTok ==
  ("tool:get_pod_health" :> <<"get_pod_health">>)
    @@ ("tool:get_deployment_status" :> <<"get_deployment_status">>)
    @@ ("tool:get_service_endpoints" :> <<"get_service_endpoints">>)
    @@ ("tool:get_recent_events" :> <<"get_recent_events">>)
    @@ ("tool:get_pod_logs" :> <<"get_pod_logs">>)
    @@ ("tool:restart_pod" :> <<"restart_pod">>)

\* a value of map[string]interface{}: a JSON string or a JSON number
StrVal(s) == [t |-> "string", s |-> s, n |-> 0]
NumVal(n) == [t |-> "number", s |-> NoText, n |-> n]

\* the fields an "arguments" object of a model text may hold
ArgOfTok ==
  ("namespace:prod" :> [key |-> "namespace", val |-> StrVal(<<"prod">>)])
    @@ ("namespace:" :> [key |-> "namespace", val |-> StrVal(NoText)])
    @@ ("namespace:#7" :> [key |-> "namespace", val |-> NumVal(7)])
    @@ ("podName:web-1" :> [key |-> "podName", val |-> StrVal(<<"web-1">>)])
    @@ ("podName:" :> [key |-> "podName", val |-> StrVal(NoText)])
    @@ ("podName:#7" :> [key |-> "podName", val |-> NumVal(7)])
    @@ ("lines:#50" :> [key |-> "lines", val |-> NumVal(50)])
    @@ ("lines:fifty" :> [key |-> "lines", val |-> StrVal(<<"fifty">>)])
    @@ ("deploymentName:web" :> [key |-> "deploymentName", val |-> StrVal(<<"web">>)])
    @@ ("labelSelector:app=web" :> [key |-> "labelSelector", val |-> StrVal(<<"app=web">>)])

ActionToks == DOMAIN ActionOfTok
ToolToks == DOMAIN ToolOfTok
ArgToks == DOMAIN ArgOfTok

\* ------------------------------------------------------------------------
\* strings package
\* ------------------------------------------------------------------------
\* the tokens in which the characters of a fence occur
HasFence == {Fence, FenceJSON}

\* strings.Contains
Contains(s, tok) == \E i \in 1..Len(s) : s[i] = tok

\* strings.Index: the position of the first token that is one of toks, 0 for -1
Index(s, toks) ==
  IF \E i \in 1..Len(s) : s[i] \in toks
    THEN CHOOSE i \in 1..Len(s) : s[i] \in toks /\ \A j \in 1..(i - 1) : s[j] \notin toks
    ELSE 0

\* strings.LastIndex
LastIndex(s, toks) ==
  IF \E i \in 1..Len(s) : s[i] \in toks
    THEN CHOOSE i \in 1..Len(s) : s[i] \in toks /\ \A j \in (i + 1)..Len(s) : s[j] \notin toks
    ELSE 0

IsSpace(tok) == tok = Newline

\* strings.TrimSpace
RECURSIVE TrimLeft(_)
TrimLeft(s) ==
  IF s # << >> /\ IsSpace(Head(s)) THEN TrimLeft(Tail(s)) ELSE s

RECURSIVE TrimRight(_)
TrimRight(s) ==
  IF s # << >> /\ IsSpace(s[Len(s)]) THEN TrimRight(SubSeq(s, 1, Len(s) - 1)) ELSE s

TrimSpace(s) == TrimRight(TrimLeft(s))

\* ------------------------------------------------------------------------
\* encoding/json, decoding into the aiAction struct
\* ------------------------------------------------------------------------
NoArguments == [k \in {} |-> StrVal(NoText)]

ZeroAction ==
  [Action |-> NoText, Tool |-> NoText, Arguments |-> NoArguments, Response |-> NoText]

Failed == [ok |-> FALSE, val |-> ZeroAction]

\* The decoder reads the tokens of an object one by one.  mode is where it
\* stands: "top" between the fields of the object, "str" inside the string of
\* the response field, "argkey" after the key of the arguments field, "args"
\* inside the arguments object.  The object ends at its closing brace, which
\* has to be the last token of the text.  A field the struct does not have
\* is skipped.  A text on which the decoder stops with an error after it has
\* set some fields (a value of the wrong type) is not among the tokens.
RECURSIVE Decode(_, _, _, _)
Decode(s, i, mode, acc) ==
  IF i > Len(s) THEN Failed
  ELSE LET tok == s[i] IN
    CASE mode = "top" ->
           IF tok = RBrace THEN (IF i = Len(s) THEN [ok |-> TRUE, val |-> acc] ELSE Failed)
           ELSE IF tok = Newline THEN Decode(s, i + 1, "top", acc)
           ELSE IF tok \in ActionToks
             THEN Decode(s, i + 1, "top", [acc EXCEPT !.Action = ActionOfTok[tok]])
           ELSE IF tok \in ToolToks
             THEN Decode(s, i + 1, "top", [acc EXCEPT !.Tool = ToolOfTok[tok]])
           ELSE IF tok = ResponseOpen
             THEN Decode(s, i + 1, "str", [acc EXCEPT !.Response = NoText])
           ELSE IF tok = ArgumentsKey THEN Decode(s, i + 1, "argkey", acc)
           ELSE IF tok \in ArgToks THEN Decode(s, i + 1, "top", acc)
           ELSE Failed
      [] mode = "str" ->
           IF tok = Quote THEN Decode(s, i + 1, "top", acc)
           ELSE IF tok \in StringChars
             THEN Decode(s, i + 1, "str", [acc EXCEPT !.Response = Append(@, tok)])
           ELSE Failed
      [] mode = "argkey" ->
           IF tok = LBrace THEN Decode(s, i + 1, "args", acc)
           ELSE IF tok = Null
             THEN Decode(s, i + 1, "top", [acc EXCEPT !.Arguments = NoArguments])
           ELSE IF tok = Newline THEN Decode(s, i + 1, "argkey", acc)
           ELSE Failed
      [] mode = "args" ->
           IF tok = RBrace THEN Decode(s, i + 1, "top", acc)
           ELSE IF tok = Newline THEN Decode(s, i + 1, "args", acc)
           ELSE IF tok \in ArgToks
             THEN Decode(s, i + 1, "args",
                    [acc EXCEPT !.Arguments =
                       (ArgOfTok[tok].key :> ArgOfTok[tok].val) @@ @])
           ELSE IF tok \in ActionToks
             THEN Decode(s, i + 1, "args",
                    [acc EXCEPT !.Arguments = ("action" :> StrVal(ActionOfTok[tok])) @@ @])
           ELSE IF tok \in ToolToks
             THEN Decode(s, i + 1, "args",
                    [acc EXCEPT !.Arguments = ("tool" :> StrVal(ToolOfTok[tok])) @@ @])
           ELSE Failed
      [] OTHER -> Failed

\* json.Unmarshal([]byte(text), &aiAction): white space around the value is
\* skipped; null leaves the struct as it is; an object sets the fields it
\* names; anything else is an error and leaves the struct as it is.
Unmarshal(text, into) ==
  LET s == TrimSpace(text) IN
    IF s = <<Null>> THEN [ok |-> TRUE, val |-> into]
    ELSE IF s # << >> /\ s[1] = LBrace THEN
      LET r == Decode(s, 2, "top", into) IN
        IF r.ok THEN r ELSE [ok |-> FALSE, val |-> into]
    ELSE [ok |-> FALSE, val |-> into]

\* ------------------------------------------------------------------------
\* QueryWithMCP: from the text of the first model call to the decision
\* ------------------------------------------------------------------------
\* jsonText: the text between the first json fence and the next fence when both
\* are there, the whole text otherwise
FencedText(responseText) ==
  IF Contains(responseText, FenceJSON) THEN
    LET start == Index(responseText, {FenceJSON}) + 1
        rest == SubSeq(responseText, start, Len(responseText))
        end == Index(rest, HasFence)
    IN IF end # 0
         THEN TrimSpace(SubSeq(responseText, start, start + end - 2))
         ELSE responseText
  ELSE responseText

\* possibleJSON: from the first { to the last } of the whole text;
\* ok is FALSE when the text has no such span
BraceSpan(responseText) ==
  LET start == Index(responseText, {LBrace})
      end == LastIndex(responseText, {RBrace})
  IN IF Contains(responseText, LBrace) /\ Contains(responseText, RBrace)
          /\ start # 0 /\ end # 0 /\ end > start
       THEN [ok |-> TRUE, text |-> SubSeq(responseText, start, end)]
       ELSE [ok |-> FALSE, text |-> NoText]

\* The decision of the first model call: ok is FALSE when the text is to be
\* returned as it is.
ParseDecision(responseText) ==
  LET first == Unmarshal(FencedText(responseText), ZeroAction) IN
    IF first.ok THEN first
    ELSE LET span == BraceSpan(responseText) IN
      IF span.ok THEN
        LET second == Unmarshal(span.text, first.val) IN
          IF second.ok THEN second ELSE Failed
      ELSE Failed

\* ------------------------------------------------------------------------
\* Errors
\* ------------------------------------------------------------------------
NilErr == [nil |-> TRUE, msg |-> NoText]
Errorf(msg) == [nil |-> FALSE, msg |-> msg]

\* what a call of the cluster or of the model fails with
ConnRefused == <<"connection refused">>
Canceled == <<"context canceled">>

\* ------------------------------------------------------------------------
\* kubernetes.Service.GatherResources
\* ------------------------------------------------------------------------
SupportedKinds ==
  {"pods", "deployments", "services", "configmaps", "secrets", "events", "replicasets"}

Kinds == SupportedKinds \cup {"bogus"}

\* resourceType + "_error"
ErrorKey ==
  ("pods" :> "pods_error") @@ ("deployments" :> "deployments_error")
    @@ ("services" :> "services_error") @@ ("configmaps" :> "configmaps_error")
    @@ ("secrets" :> "secrets_error") @@ ("events" :> "events_error")
    @@ ("replicasets" :> "replicasets_error") @@ ("bogus" :> "bogus_error")

\* an item of a list the cluster returns; Data and StringData are the
\* payload maps of a secret, a set of key=value pairs each
Item(name, data, stringData) == [Name |-> name, Data |-> data, StringData |-> stringData]

SecretItems ==
  {Item("db-credentials", d, sd) : d \in {{}, {"password=hunter2"}}, sd \in {{}, {"token=abc"}}}

RECURSIVE SeqsUpTo(_, _)
SeqsUpTo(S, n) ==
  IF n = 0 THEN {<< >>}
  ELSE LET shorter == SeqsUpTo(S, n - 1) IN
    shorter \cup {Append(q, x) : q \in {r \in shorter : Len(r) = n - 1}, x \in S}

\* the lists a successful List call of the cluster may return for a kind
ClusterLists(kind) ==
  IF kind = "secrets" THEN SeqsUpTo(SecretItems, MaxSecrets)
  ELSE {<<Item(kind, {}, {})>>}

\* an entry of the resources map: a collection or an error text
Collection(items) == [IsError |-> FALSE, Error |-> NoText, Items |-> items]
ErrorEntry(msg) == [IsError |-> TRUE, Error |-> msg, Items |-> << >>]

\* a loop that clears Data and leaves StringData as it came
RedactDataOnly(items) ==
  [i \in 1..Len(items) |-> [items[i] EXCEPT !.Data = {}]]

\* lines 611-614: the loop that clears the payload of every item
Redact(items) ==
  [i \in 1..Len(items) |-> [items[i] EXCEPT !.Data = {}, !.StringData = {}]]

\* what is stored for a kind whose List call succeeded
Stored(kind, items) ==
  IF kind = "secrets" THEN Collection(Redact(items)) ELSE Collection(items)

\* resources[key] = value
Put(resources, key, value) == (key :> value) @@ resources

\* The frame of one GatherResources call.  pc is "list" while the List call
\* for resourceTypes[i] is in flight and "done" after the return.  listed is
\* the history of the List calls issued, returned the list the cluster
\* returned last for each kind, as the cluster returned it, failed the kinds
\* of which a List call returned an error.
GatherFrame(resourceTypes, namespace, labelSelector) ==
  [pc |-> "list",
   resourceTypes |-> resourceTypes,
   namespace |-> IF namespace = NoText THEN <<"default">> ELSE namespace,
   labelSelector |-> labelSelector,
   i |-> 1,
   resources |-> [k \in {} |-> ErrorEntry(NoText)],
   listed |-> << >>,
   returned |-> [k \in {} |-> << >>],
   failed |-> {},
   ret |-> [Resources |-> [k \in {} |-> ErrorEntry(NoText)], Namespace |-> NoText,
            err |-> NilErr]]

IdleGather == [GatherFrame(<< >>, NoText, NoText) EXCEPT !.pc = "idle"]

\* a loop that records an unsupported kind and returns at once
GatherLoopStopAtUnknown(g) ==
  IF g.i > Len(g.resourceTypes)
    THEN [g EXCEPT !.pc = "done",
                   !.ret = [Resources |-> g.resources, Namespace |-> g.namespace,
                            err |-> NilErr]]
  ELSE LET resourceType == g.resourceTypes[g.i]
           unknown == Put(g.resources, ErrorKey[resourceType],
                          ErrorEntry(<<"unsupported resource type: ", resourceType>>))
       IN IF resourceType \in SupportedKinds
            THEN [g EXCEPT !.pc = "list",
                           !.listed = Append(@, [kind |-> resourceType,
                                                 namespace |-> g.namespace,
                                                 labelSelector |-> g.labelSelector])]
            ELSE [g EXCEPT !.pc = "done", !.resources = unknown, !.i = g.i + 1,
                           !.ret = [Resources |-> unknown, Namespace |-> g.namespace,
                                    err |-> NilErr]]

\* The loop from index g.i on, up to the next List call or to the return:
\* an unsupported kind is recorded and the loop goes on.
RECURSIVE GatherLoop(_)
GatherLoop(g) ==
  IF g.i > Len(g.resourceTypes)
    THEN [g EXCEPT !.pc = "done",
                   !.ret = [Resources |-> g.resources, Namespace |-> g.namespace,
                            err |-> NilErr]]
  ELSE LET resourceType == g.resourceTypes[g.i] IN
    IF resourceType \in SupportedKinds
      THEN [g EXCEPT !.pc = "list",
                     !.listed = Append(@, [kind |-> resourceType,
                                           namespace |-> g.namespace,
                                           labelSelector |-> g.labelSelector])]
      ELSE GatherLoop([g EXCEPT
             !.resources = Put(@, ErrorKey[resourceType],
                               ErrorEntry(<<"unsupported resource type: ", resourceType>>)),
             !.i = g.i + 1])

\* the call, up to its first List call
GatherResources(resourceTypes, namespace, labelSelector) ==
  GatherLoop(GatherFrame(resourceTypes, namespace, labelSelector))

\* a gatherer that gives up at the first List call that fails
GatherListReturnAbort(g, out) ==
  IF out.ok
    THEN GatherLoop([g EXCEPT
           !.resources = Put(@, g.resourceTypes[g.i], Stored(g.resourceTypes[g.i], out.items)),
           !.returned = (g.resourceTypes[g.i] :> out.items) @@ @,
           !.i = g.i + 1])
    ELSE [g EXCEPT !.pc = "done",
                   !.ret = [Resources |-> g.resources, Namespace |-> g.namespace,
                            err |-> Errorf(out.msg)]]

\* delete(resources, key)
Delete(resources, key) == [k \in DOMAIN resources \ {key} |-> resources[k]]

\* a gatherer that keeps for a kind the entry of its last List call only
GatherListReturnLastWins(g, out) ==
  LET resourceType == g.resourceTypes[g.i] IN
    GatherLoop([g EXCEPT
      !.resources = IF out.ok
                      THEN Put(Delete(@, ErrorKey[resourceType]), resourceType,
                               Stored(resourceType, out.items))
                    ELSE Put(Delete(@, resourceType), ErrorKey[resourceType],
                             ErrorEntry(out.msg)),
      !.returned = IF out.ok THEN (resourceType :> out.items) @@ @ ELSE @,
      !.failed = IF out.ok THEN @ ELSE @ \cup {resourceType},
      !.i = g.i + 1])

\* the List call in flight returns: out.ok with out.items, or the error out.msg
GatherListReturn(g, out) ==
  LET resourceType == g.resourceTypes[g.i] IN
    GatherLoop([g EXCEPT
      !.resources = IF out.ok THEN Put(@, resourceType, Stored(resourceType, out.items))
                    ELSE Put(@, ErrorKey[resourceType], ErrorEntry(out.msg)),
      !.returned = IF out.ok THEN (resourceType :> out.items) @@ @ ELSE @,
      !.failed = IF out.ok THEN @ ELSE @ \cup {resourceType},
      !.i = g.i + 1])

\* ------------------------------------------------------------------------
\* kubernetes.Service.GetPodLogs
\* ------------------------------------------------------------------------
\* The frame of one GetPodLogs call: "stream" while request.Stream is in
\* flight, "read" while a Read of the stream is in flight.
LogsFrame(namespace, podName, containerName, lines) ==
  [pc |-> "stream",
   namespace |-> namespace, podName |-> podName, containerName |-> containerName,
   tailLines |-> IF lines > 0 THEN lines ELSE 0,
   result |-> NoText,
   err |-> NilErr,
   ret |-> [logs |-> NoText, err |-> NilErr]]

IdleLogs == [LogsFrame(NoText, NoText, NoText, 0) EXCEPT !.pc = "idle"]

\* request.Stream returns
LogsStreamReturn(l, out) ==
  IF out.ok THEN [l EXCEPT !.pc = "read"]
  ELSE [l EXCEPT !.pc = "done",
                 !.ret = [logs |-> NoText,
                          err |-> Errorf(<<"failed to get pod logs: ">> \o out.msg)]]

\* io.EOF, the error of a Read at the end of the stream
EOF == <<"EOF">>

\* logs.Read returns n bytes (out.chunk, empty for n = 0) and out.err, which
\* the frame keeps in err
LogsReadReturn(l, out) ==
  LET result == l.result \o out.chunk IN
    IF ~out.err.nil
      THEN [l EXCEPT !.pc = "done", !.result = result, !.err = out.err,
                     !.ret = [logs |-> result, err |-> NilErr]]
      ELSE [l EXCEPT !.result = result, !.err = out.err]

\* ------------------------------------------------------------------------
\* mcp.MCPService: the catalog and ExecuteTool
\* ------------------------------------------------------------------------
\* registerTools: the names under which a tool is registered
Tools ==
  {<<"get_pod_health">>, <<"get_deployment_status">>, <<"get_service_endpoints">>,
   <<"get_recent_events">>, <<"get_pod_logs">>}

\* a Tool of the catalog: its name and the parameters its schema requires
Tool(name, required) == [Name |-> name, Required |-> required]

\* registerTools: what it writes into the tools map of a new MCPService
registerTools ==
  [name \in Tools |->
     Tool(name, IF name = <<"get_pod_logs">> THEN {"podName"} ELSE {})]

\* the tools field of the MCPService: the catalog, a map from name to Tool
VARIABLE tools

\* ListTools: a new slice with the Tool of every key, in no order
ListTools(t) == {t[name] : name \in DOMAIN t}

\* a lookup that leaves an entry for the name it did not find
LookupToolInserting(t, name) ==
  IF name \in DOMAIN t THEN t ELSE (name :> Tool(NoText, {})) @@ t

\* line 187: the map after  _, exists := m.tools[request.Name]
LookupTool(t, name) == t

ToolResult(text, isError) ==
  [Content |-> <<[Type |-> "text", Text |-> text]>>, IsError |-> isError]

\* what a handler returns: the result and the error next to it
Returned(result, err) == [done |-> TRUE, result |-> result, err |-> err]

\* a helper that formats a value that is not a string instead of falling back
\* to the default
getStringParamFormatting(args, key, defaultValue) ==
  IF key \notin DOMAIN args THEN defaultValue
  ELSE IF args[key].t = "string" THEN args[key].s
  ELSE <<ToString(args[key].n)>>

getStringParam(args, key, defaultValue) ==
  IF key \in DOMAIN args /\ args[key].t = "string" THEN args[key].s ELSE defaultValue

\* a JSON number arrives as a float64
getIntParam(args, key, defaultValue) ==
  IF key \in DOMAIN args /\ args[key].t = "number" THEN args[key].n ELSE defaultValue

ServiceUnavailable ==
  Returned(ToolResult(<<"Kubernetes service not available. Please ensure cluster connectivity.">>,
                      TRUE),
           Errorf(<<"kubernetes service not available">>))

\* the resource type, the argument that filters by name, the prefix of the
\* label selector and the texts of each of the four handlers that gather
GatherTool ==
  (<<"get_pod_health">> :>
     [kind |-> "pods", nameArg |-> "labelSelector", selector |-> NoText,
      header |-> <<"Pod health information for namespace '">>,
      failure |-> <<"Error gathering pod information: ">>])
  @@ (<<"get_deployment_status">> :>
     [kind |-> "deployments", nameArg |-> "deploymentName", selector |-> <<"app=">>,
      header |-> <<"Deployment status for namespace '">>,
      failure |-> <<"Error gathering deployment information: ">>])
  @@ (<<"get_service_endpoints">> :>
     [kind |-> "services", nameArg |-> "serviceName", selector |-> <<"app=">>,
      header |-> <<"Service endpoints for namespace '">>,
      failure |-> <<"Error gathering service information: ">>])
  @@ (<<"get_recent_events">> :>
     [kind |-> "events", nameArg |-> "resourceName", selector |-> <<"involvedObject.name=">>,
      header |-> <<"Recent events for namespace '">>,
      failure |-> <<"Error gathering events: ">>])

\* the call a handler makes on the cluster service
Pending(call) == [done |-> FALSE, call |-> call]

\* handlers that gather the secrets of the namespace next to their kind
GatherToolBeginWithSecrets(name, args, k8s) ==
  LET t == GatherTool[name]
      namespace == getStringParam(args, "namespace", <<"default">>)
      filter == getStringParam(args, t.nameArg, NoText)
      labelSelector == IF filter # NoText THEN t.selector \o filter ELSE NoText
  IN IF k8s = "nil" THEN ServiceUnavailable
     ELSE Pending([op |-> "gather", tool |-> name, namespace |-> namespace,
                   resourceTypes |-> <<t.kind, "secrets">>, labelSelector |-> labelSelector,
                   podName |-> NoText, containerName |-> NoText, lines |-> 0])

\* getPodHealth, getDeploymentStatus, getServiceEndpoints, getRecentEvents,
\* up to the GatherResources call
GatherToolBegin(name, args, k8s) ==
  LET t == GatherTool[name]
      namespace == getStringParam(args, "namespace", <<"default">>)
      filter == getStringParam(args, t.nameArg, NoText)
      labelSelector == IF filter # NoText THEN t.selector \o filter ELSE NoText
  IN IF k8s = "nil" THEN ServiceUnavailable
     ELSE Pending([op |-> "gather", tool |-> name, namespace |-> namespace,
                   resourceTypes |-> <<t.kind>>, labelSelector |-> labelSelector,
                   podName |-> NoText, containerName |-> NoText, lines |-> 0])

\* json.MarshalIndent of resources.Resources[kind]: null for a key the map
\* does not have
MarshalIndent(resources, kind) ==
  IF kind \in DOMAIN resources
    THEN <<"{items: [">> \o [i \in 1..Len(resources[kind].Items) |-> resources[kind].Items[i].Name]
           \o <<"]}">>
    ELSE <<"null">>

\* the same handlers, from the return of GatherResources on
GatherToolEnd(call, ret) ==
  LET t == GatherTool[call.tool] IN
    IF ~ret.err.nil
      THEN Returned(ToolResult(t.failure \o ret.err.msg, TRUE), ret.err)
      ELSE Returned(ToolResult(t.header \o call.namespace \o <<"':\n\n">>
                                 \o MarshalIndent(ret.Resources, t.kind), FALSE),
                    NilErr)

\* a handler that asks for the logs of all pods when no pod is named
PodLogsBeginDefaulted(args, k8s) ==
  LET namespace == getStringParam(args, "namespace", <<"default">>)
      podName == getStringParam(args, "podName", <<"*">>)
      containerName == getStringParam(args, "containerName", NoText)
      lines == getIntParam(args, "lines", 100)
  IN IF k8s = "nil" THEN ServiceUnavailable
     ELSE Pending([op |-> "logs", tool |-> <<"get_pod_logs">>, namespace |-> namespace,
                   resourceTypes |-> << >>, labelSelector |-> NoText,
                   podName |-> podName, containerName |-> containerName, lines |-> lines])

\* getPodLogs, up to the GetPodLogs call
PodLogsBegin(args, k8s) ==
  LET namespace == getStringParam(args, "namespace", <<"default">>)
      podName == getStringParam(args, "podName", NoText)
      containerName == getStringParam(args, "containerName", NoText)
      lines == getIntParam(args, "lines", 100)
  IN IF podName = NoText
       THEN Returned(ToolResult(<<"Pod name is required for getting logs">>, TRUE),
                     Errorf(<<"pod name is required">>))
     ELSE IF k8s = "nil" THEN ServiceUnavailable
     ELSE Pending([op |-> "logs", tool |-> <<"get_pod_logs">>, namespace |-> namespace,
                   resourceTypes |-> << >>, labelSelector |-> NoText,
                   podName |-> podName, containerName |-> containerName, lines |-> lines])

\* a handler that reports a failed GetPodLogs in its outcome only
PodLogsEndOutcomeOnly(call, ret) ==
  IF ~ret.err.nil
    THEN Returned(ToolResult(<<"Error getting pod logs: ">> \o ret.err.msg, TRUE), NilErr)
    ELSE Returned(ToolResult(<<"Logs for pod '">> \o call.podName \o <<"' in namespace '">>
                               \o call.namespace \o <<"' (last ", ToString(call.lines),
                                                      " lines):\n\n">> \o ret.logs,
                             FALSE),
                  NilErr)

\* getPodLogs, from the return of GetPodLogs on
PodLogsEnd(call, ret) ==
  IF ~ret.err.nil
    THEN Returned(ToolResult(<<"Error getting pod logs: ">> \o ret.err.msg, TRUE), ret.err)
    ELSE Returned(ToolResult(<<"Logs for pod '">> \o call.podName \o <<"' in namespace '">>
                               \o call.namespace \o <<"' (last ", ToString(call.lines),
                                                      " lines):\n\n">> \o ret.logs,
                             FALSE),
                  NilErr)

\* an executor that answers an unknown name without repeating it
ExecuteToolUnnamed(request, k8s) ==
  IF request.Name \notin DOMAIN tools
    THEN Returned(ToolResult(<<"Unknown tool">>, TRUE), Errorf(<<"unknown tool">>))
  ELSE IF request.Name \in DOMAIN GatherTool
    THEN GatherToolBegin(request.Name, request.Arguments, k8s)
  ELSE IF request.Name = <<"get_pod_logs">>
    THEN PodLogsBegin(request.Arguments, k8s)
  ELSE Returned(ToolResult(<<"Tool ">> \o request.Name \o <<" is registered but not implemented">>,
                           TRUE),
                Errorf(<<"tool not implemented: ">> \o request.Name))

\* ExecuteTool, up to the call on the cluster service (or to the return when
\* the handler makes none)
ExecuteTool(request, k8s) ==
  IF request.Name \notin DOMAIN tools
    THEN Returned(ToolResult(<<"Unknown tool: ">> \o request.Name, TRUE),
                  Errorf(<<"unknown tool: ">> \o request.Name))
  ELSE IF request.Name \in DOMAIN GatherTool
    THEN GatherToolBegin(request.Name, request.Arguments, k8s)
  ELSE IF request.Name = <<"get_pod_logs">>
    THEN PodLogsBegin(request.Arguments, k8s)
  ELSE Returned(ToolResult(<<"Tool ">> \o request.Name \o <<" is registered but not implemented">>,
                           TRUE),
                Errorf(<<"tool not implemented: ">> \o request.Name))

\* ------------------------------------------------------------------------
\* ai.Service.QueryWithMCP
\* ------------------------------------------------------------------------
QueryResponse(response, usedTool, toolUsed, rawData, error) ==
  [Response |-> response, UsedTool |-> usedTool, ToolUsed |-> toolUsed,
   RawData |-> rawData, Error |-> error]

NoResponse == QueryResponse(NoText, FALSE, NoText, NoText, NoText)

\* return &QueryResponse{...}, nil  and  return nil, err
ReturnResponse(resp) == [kind |-> "response", resp |-> resp, err |-> NoText]
ReturnError(msg) == [kind |-> "error", resp |-> NoResponse, err |-> msg]
NotReturned == [kind |-> "none", resp |-> NoResponse, err |-> NoText]

NoCall ==
  [op |-> "none", tool |-> NoText, namespace |-> NoText, resourceTypes |-> << >>,
   labelSelector |-> NoText, podName |-> NoText, containerName |-> NoText, lines |-> 0]

\* The frame of one QueryWithMCP call.  pc: "Decide" while the first model
\* call is in flight, "ToolCall" while the tool waits for the cluster,
\* "Analyze" while the second model call is in flight, "Done" after the
\* return.  issued, first, second and secondText are the history of the
\* outbound calls and of what the two model calls returned.
QueryFrame(query) ==
  [pc |-> "Decide", query |-> query, responseText |-> NoText, parsed |-> FALSE,
   aiAction |-> ZeroAction, call |-> NoCall,
   toolResult |-> ToolResult(NoText, FALSE), toolErr |-> NilErr, executed |-> FALSE,
   toolOutput |-> NoText, ret |-> NotReturned,
   issued |-> <<"model1">>, first |-> "none", second |-> "none", secondText |-> NoText]

IdleQuery == [QueryFrame(NoText) EXCEPT !.pc = "idle", !.issued = << >>]

Done(q, ret) == [q EXCEPT !.pc = "Done", !.ret = ret]

\* lines 202-230: up to the first model call
QueryWithMCP(query, mcp) ==
  IF mcp = "nil"
    THEN Done([QueryFrame(query) EXCEPT !.issued = << >>],
              ReturnError(<<"MCP service not available">>))
    ELSE QueryFrame(query)

\* a response for a failed tool that leaves out the name of the tool
ToolErrorResponseUnnamed(tool, err) ==
  QueryResponse(<<"Error executing tool: ">> \o err.msg, TRUE, NoText, NoText, err.msg)

\* lines 311-316: the response for a tool that returned an error
ToolErrorResponse(tool, err) ==
  QueryResponse(<<"Error executing tool ">> \o tool \o <<": ">> \o err.msg,
                TRUE, tool, NoText, err.msg)

\* lines 320-323: the text of all content blocks, a newline after each
RECURSIVE ToolOutput(_)
ToolOutput(content) ==
  IF content = << >> THEN NoText
  ELSE Head(content).Text \o <<Newline>> \o ToolOutput(Tail(content))

\* an orchestrator that returns the error of the tool to its caller
AfterToolPropagate(q, r) ==
  IF ~r.err.nil
    THEN Done([q EXCEPT !.toolResult = r.result, !.toolErr = r.err, !.executed = TRUE,
                        !.call = NoCall],
              ReturnError(<<"failed to execute tool: ">> \o r.err.msg))
    ELSE [q EXCEPT !.toolResult = r.result, !.toolErr = r.err, !.executed = TRUE,
                   !.call = NoCall, !.pc = "Analyze",
                   !.toolOutput = ToolOutput(r.result.Content),
                   !.issued = Append(@, "model2")]

\* an orchestrator that sends the text of an error outcome to the model too
AfterToolAnalyzeAll(q, r) ==
  [q EXCEPT !.toolResult = r.result, !.toolErr = r.err, !.executed = TRUE,
            !.call = NoCall, !.pc = "Analyze",
            !.toolOutput = ToolOutput(r.result.Content),
            !.issued = Append(@, "model2")]

\* an orchestrator that asks the model for another decision when the tool
\* returned an error
AfterToolAskAgain(q, r) ==
  LET q1 == [q EXCEPT !.toolResult = r.result, !.toolErr = r.err, !.executed = TRUE,
                      !.call = NoCall]
  IN IF ~r.err.nil
       THEN [q1 EXCEPT !.pc = "Decide"]
       ELSE [q1 EXCEPT !.pc = "Analyze", !.toolOutput = ToolOutput(r.result.Content),
                       !.issued = Append(@, "model2")]

\* lines 309-341: from the return of ExecuteTool to the second model call
AfterTool(q, r) ==
  LET q1 == [q EXCEPT !.toolResult = r.result, !.toolErr = r.err, !.executed = TRUE,
                      !.call = NoCall]
  IN IF ~r.err.nil
       THEN Done(q1, ReturnResponse(ToolErrorResponse(q.aiAction.Tool, r.err)))
       ELSE [q1 EXCEPT !.pc = "Analyze", !.toolOutput = ToolOutput(r.result.Content),
                       !.issued = Append(@, "model2")]

\* lines 302-309 and 368-372: the decision is carried out
Act(q, k8s) ==
  IF q.aiAction.Action = <<"use_tool">> THEN
    LET r == ExecuteTool([Name |-> q.aiAction.Tool, Arguments |-> q.aiAction.Arguments], k8s)
        q1 == [q EXCEPT !.issued = Append(@, "tool")]
    IN IF r.done THEN AfterTool(q1, r)
       ELSE [q1 EXCEPT !.pc = "ToolCall", !.call = r.call]
  ELSE Done(q, ReturnResponse(QueryResponse(q.aiAction.Response, FALSE, NoText, NoText, NoText)))

\* an orchestrator that trims the text it could not parse before it returns it
DecideTrimmed(q, out, k8s) ==
  LET q1 == [q EXCEPT !.first = out.kind] IN
    IF out.kind = "err"
      THEN Done(q1, ReturnError(<<"failed to process query: ">> \o out.text))
    ELSE IF out.kind = "empty"
      THEN Done(q1, ReturnError(<<"no response generated">>))
    ELSE LET d == ParseDecision(out.text)
             q2 == [q1 EXCEPT !.responseText = out.text, !.parsed = d.ok,
                              !.aiAction = d.val]
         IN IF ~d.ok
              THEN Done(q2, ReturnResponse(QueryResponse(TrimSpace(out.text), FALSE,
                                                         NoText, NoText, NoText)))
              ELSE Act(q2, k8s)

\* lines 230-300: the first model call returns out: an error, a response
\* without candidate parts, or a text
Decide(q, out, k8s) ==
  LET q1 == [q EXCEPT !.first = out.kind] IN
    IF out.kind = "err"
      THEN Done(q1, ReturnError(<<"failed to process query: ">> \o out.text))
    ELSE IF out.kind = "empty"
      THEN Done(q1, ReturnError(<<"no response generated">>))
    ELSE LET d == ParseDecision(out.text)
             q2 == [q1 EXCEPT !.responseText = out.text, !.parsed = d.ok,
                              !.aiAction = d.val]
         IN IF ~d.ok
              THEN Done(q2, ReturnResponse(QueryResponse(out.text, FALSE, NoText, NoText, NoText)))
              ELSE Act(q2, k8s)

\* an orchestrator that issues the second model call once more after it failed
AnalyzeRetryOnce(q, out) ==
  LET q1 == [q EXCEPT !.second = out.kind] IN
    IF out.kind = "err" /\ Len(q.issued) = 3
      THEN [q EXCEPT !.issued = Append(@, "model2")]
    ELSE IF out.kind = "err"
      THEN Done(q1, ReturnResponse(QueryResponse(
             <<"Gathered data but failed to analyze: ">> \o q.toolOutput,
             TRUE, q.aiAction.Tool, NoText, NoText)))
      ELSE Done(q1, ReturnResponse(QueryResponse(
             IF out.kind = "text" THEN out.text ELSE NoText,
             TRUE, q.aiAction.Tool, q.toolOutput, NoText)))

\* an orchestrator that returns the error of the second model call
AnalyzePropagate(q, out) ==
  IF out.kind = "err"
    THEN Done([q EXCEPT !.second = out.kind],
              ReturnError(<<"failed to analyze: ">> \o out.text))
    ELSE Done([q EXCEPT !.second = out.kind],
              ReturnResponse(QueryResponse(IF out.kind = "text" THEN out.text ELSE NoText,
                                           TRUE, q.aiAction.Tool, q.toolOutput, NoText)))

\* an orchestrator that keeps the tool text out of the response
AnalyzeWithoutRawData(q, out) ==
  LET q1 == [q EXCEPT !.second = out.kind, !.secondText = out.text] IN
    IF out.kind = "err"
      THEN Done(q1, ReturnResponse(QueryResponse(
             <<"Gathered data but failed to analyze: ">> \o q.toolOutput,
             TRUE, q.aiAction.Tool, NoText, NoText)))
      ELSE Done(q1, ReturnResponse(QueryResponse(
             IF out.kind = "text" THEN out.text ELSE NoText,
             TRUE, q.aiAction.Tool, NoText, NoText)))

\* an orchestrator that reports a failed second call in the error field, next
\* to the raw data
AnalyzeReportingFailure(q, out) ==
  LET q1 == [q EXCEPT !.second = out.kind, !.secondText = out.text] IN
    IF out.kind = "err"
      THEN Done(q1, ReturnResponse(QueryResponse(
             <<"Gathered data but failed to analyze: ">> \o q.toolOutput,
             TRUE, q.aiAction.Tool, q.toolOutput, out.text)))
      ELSE Done(q1, ReturnResponse(QueryResponse(
             IF out.kind = "text" THEN out.text ELSE NoText,
             TRUE, q.aiAction.Tool, q.toolOutput, NoText)))

\* lines 341-365: the second model call returns out
Analyze(q, out) ==
  LET q1 == [q EXCEPT !.second = out.kind, !.secondText = out.text] IN
    IF out.kind = "err"
      THEN Done(q1, ReturnResponse(QueryResponse(
             <<"Gathered data but failed to analyze: ">> \o q.toolOutput,
             TRUE, q.aiAction.Tool, NoText, NoText)))
      ELSE Done(q1, ReturnResponse(QueryResponse(
             IF out.kind = "text" THEN out.text ELSE NoText,
             TRUE, q.aiAction.Tool, q.toolOutput, NoText)))

\* ------------------------------------------------------------------------
\* What the model, the cluster and the callers may supply
\* ------------------------------------------------------------------------
\* the query texts of the request bodies: a field that is missing or empty,
\* or a question
Queries == {NoText, <<"What is the health of my pods?">>, <<"ImagePullBackOff">>}

\* the contents of an "arguments" object
ArgLists ==
  {<< >>, <<"namespace:prod">>, <<"namespace:">>, <<"namespace:#7">>,
   <<"podName:web-1">>, <<"podName:">>, <<"podName:#7">>,
   <<"podName:web-1", "namespace:prod">>, <<"podName:web-1", "lines:#50">>,
   <<"podName:web-1", "lines:fifty">>, <<"deploymentName:web">>,
   <<"labelSelector:app=web">>}

\* the fields of a decision object that asks for a tool
ToolBodies ==
  {<<"action:use_tool", t>> : t \in ToolToks}
    \cup {<<"action:use_tool", t, ArgumentsKey, LBrace>> \o a \o <<RBrace>> :
            t \in ToolToks, a \in ArgLists}

\* the fields of a decision object that does not
AnswerBodies ==
  {<<"action:answer", ResponseOpen>> \o c \o <<Quote>> : c \in SeqsUpTo(StringChars, MaxJunk)}
    \cup {<< >>, <<"action:answer">>, <<"action:other">>,
          <<"action:other", ResponseOpen, Word, Quote>>, <<ResponseOpen, Word, Quote>>,
          <<"action:use_tool">>}

\* what the model puts before and after the object
Wrappers ==
  {<< << >>, << >> >>, << <<FenceJSON, Newline>>, <<Newline, Fence>> >>,
   << <<Word>>, <<Word>> >>, << <<Word, FenceJSON>>, <<Fence, Word>> >>,
   << <<Newline>>, <<Newline>> >>}

\* the texts the first model call may return: a wrapped object, or any
\* short text without one
ModelTexts ==
  {w[1] \o <<LBrace>> \o b \o <<RBrace>> \o w[2] : w \in Wrappers, b \in ToolBodies \cup AnswerBodies}
    \cup SeqsUpTo(StringChars \cup {Newline}, MaxJunk)

\* a decision object as the whole of a model text
StrictOf(b) == <<LBrace>> \o b \o <<RBrace>>

\* the texts the second model call may return
AnalysisTexts == {NoText, <<"## Current state">>}

ModelOutcome(kind, text) == [kind |-> kind, text |-> text]

ListOutcome(ok, items, msg) == [ok |-> ok, items |-> items, msg |-> msg]

\* the chunks a Read of a log stream may deliver
Chunks == {<<"log line">>}

\* what a Read returns: n bytes and an error
ReadOutcome(chunk, err) == [chunk |-> chunk, err |-> err]

\* ------------------------------------------------------------------------
\* One execution of QueryWithMCP in its goroutine: the frames of the call and
\* of the cluster call of its tool, which hold every variable the call
\* declares, and the answers the model and the cluster gave it
\* ------------------------------------------------------------------------
Ids == 1..MaxQueries

\* the catalog after a step that took the frame of a query from q to q1:
\* ExecuteTool, when the step called it, looked the tool up
ToolsAfter(t, q, q1) ==
  IF ~Contains(q.issued, "tool") /\ Contains(q1.issued, "tool")
    THEN LookupTool(t, q1.aiAction.Tool)
    ELSE t

Execution(q, g, l, answers) == [q |-> q, g |-> g, l |-> l, answers |-> answers]

IdleExecution == Execution(IdleQuery, IdleGather, IdleLogs, << >>)

\* the handler calls QueryWithMCP on the shared ai.Service
Begin(query, mcp) == Execution(QueryWithMCP(query, mcp), IdleGather, IdleLogs, << >>)

\* the execution with the frame q and the frame of the cluster call q waits for
WithCall(e, q) ==
  [e EXCEPT !.q = q,
            !.g = IF q.pc = "ToolCall" /\ q.call.op = "gather"
                    THEN GatherResources(q.call.resourceTypes, q.call.namespace,
                                         q.call.labelSelector)
                    ELSE @,
            !.l = IF q.pc = "ToolCall" /\ q.call.op = "logs"
                    THEN LogsFrame(q.call.namespace, q.call.podName,
                                   q.call.containerName, q.call.lines)
                    ELSE @]

\* the outbound call that is in flight returns out
Resume(e, out, k8s) ==
  LET e1 == [e EXCEPT !.answers = Append(@, out)] IN
    IF e.q.pc = "Decide" THEN WithCall(e1, Decide(e.q, out, k8s))
    ELSE IF e.q.pc = "Analyze" THEN [e1 EXCEPT !.q = Analyze(e.q, out)]
    ELSE IF e.q.pc # "ToolCall" THEN e
    ELSE IF e.g.pc = "list" THEN
      LET g == GatherListReturn(e.g, out) IN
        [e1 EXCEPT !.g = g,
                   !.q = IF g.pc = "done" THEN AfterTool(@, GatherToolEnd(e.q.call, g.ret))
                         ELSE @]
    ELSE IF e.l.pc = "stream" THEN
      LET l == LogsStreamReturn(e.l, out) IN
        [e1 EXCEPT !.l = l,
                   !.q = IF l.pc = "done" THEN AfterTool(@, PodLogsEnd(e.q.call, l.ret))
                         ELSE @]
    ELSE IF e.l.pc = "read" THEN
      LET l == LogsReadReturn(e.l, out) IN
        [e1 EXCEPT !.l = l,
                   !.q = IF l.pc = "done" THEN AfterTool(@, PodLogsEnd(e.q.call, l.ret))
                         ELSE @]
    ELSE e

\* a step of execution i on a decision that is a field of the shared service
\* instead of a variable of the call
WrittenShared(all, i, e) ==
  [j \in DOMAIN all |-> IF j = i THEN e ELSE [all[j] EXCEPT !.q.aiAction = e.q.aiAction]]

\* what a step of execution i writes: responseText, aiAction, toolOutput and
\* the other variables are declared in the call, so the frames of i and
\* nothing else
Written(all, i, e) == [all EXCEPT ![i] = e]

\* ------------------------------------------------------------------------
\* The API client of the front end and the binding of the request bodies
\* ------------------------------------------------------------------------
\* the routes the client posts to
Endpoints == {"/api/troubleshoot", "/api/suggest-resources", "/api/query"}

\* the JSON name of the field the handler of a route binds, tagged required
RequiredField ==
  ("/api/troubleshoot" :> "errorMessage")
    @@ ("/api/suggest-resources" :> "errorDescription")
    @@ ("/api/query" :> "query")

\* the name under which the client sends the argument of a route
ClientField ==
  ("/api/troubleshoot" :> "error_message")
    @@ ("/api/suggest-resources" :> "error_description")
    @@ ("/api/query" :> "query")

\* JSON.stringify of the object the client builds for a route
ClientBody(endpoint, text) == (ClientField[endpoint] :> text)

\* the field names of the calls the documentation shows, as it spells them
\* and with a capital first letter
DocumentedFields ==
  ("/api/troubleshoot" :> {"errorMessage", "ErrorMessage"})
    @@ ("/api/suggest-resources" :> {"errorDescription", "ErrorDescription"})

\* encoding/json matches the key of an object to the name of a field exactly
\* or without regard to case: the key, case folded
Fold ==
  ("errorMessage" :> "errormessage") @@ ("ErrorMessage" :> "errormessage")
    @@ ("error_message" :> "error_message")
    @@ ("errorDescription" :> "errordescription")
    @@ ("ErrorDescription" :> "errordescription")
    @@ ("error_description" :> "error_description")
    @@ ("query" :> "query")

EqualFold(a, b) == Fold[a] = Fold[b]

\* c.ShouldBindJSON: the body is decoded into the request struct, a field
\* without a key that matches stays "", and a required field that is "" fails
\* the validation
ShouldBindJSON(body, field) ==
  LET keys == {k \in DOMAIN body : EqualFold(k, field)}
      value == IF keys = {} THEN NoText ELSE body[CHOOSE k \in keys : TRUE]
  IN [err |-> value = NoText, value |-> value]

\* The frame of a handler: troubleshoot, suggestResources or mcpQuery up to
\* the call of the AI service ("service"), or answered 400 at once
Handle(sender, endpoint, body) ==
  LET req == ShouldBindJSON(body, RequiredField[endpoint]) IN
    [pc |-> IF req.err THEN "answered" ELSE "service",
     sender |-> sender, endpoint |-> endpoint, body |-> body,
     argument |-> req.value,
     status |-> IF req.err THEN 400 ELSE 0]

IdleRequest ==
  [Handle("none", "/api/query", ClientBody("/api/query", NoText))
     EXCEPT !.pc = "idle", !.status = 0]

\* the AI service returns to the handler: a response or an error
Answered(r, ok) == [r EXCEPT !.pc = "answered", !.status = IF ok THEN 200 ELSE 500]

\* ------------------------------------------------------------------------
\* State
\* ------------------------------------------------------------------------
VARIABLES
  k8sService,   \* "nil" when kubernetes.NewService failed at start, else "ok"
  mcpService,   \* the mcpService field of ai.Service: "nil" or "set"
  ctx,          \* the context of the caller: "live", or the outbound call
                \* ("model1", "cluster", "model2") during which it was cancelled
  queryCall,    \* the frame of the QueryWithMCP call
  gatherCall,   \* the frame of the GatherResources call
  logsCall,     \* the frame of the GetPodLogs call
  calls,        \* the executions of the requests served at the same time, one
                \* goroutine each: the frames of each and the answers it got
  apiRequest    \* the frame of the handler of a request of the API client

vars ==
  <<k8sService, mcpService, tools, ctx, queryCall, gatherCall, logsCall, calls, apiRequest>>

\* NewRouter: the MCP service, and with it the catalog, exists only when the
\* cluster service does
Init ==
  /\ k8sService \in {"nil", "ok"}
  /\ mcpService = IF k8sService # "nil" THEN "set" ELSE "nil"
  /\ tools = IF k8sService # "nil" THEN registerTools ELSE << >>
  /\ ctx = "live"
  /\ queryCall = IdleQuery
  /\ gatherCall = IdleGather
  /\ logsCall = IdleLogs
  /\ calls = [i \in Ids |-> IdleExecution]
  /\ apiRequest = IdleRequest

\* what an outbound call fails with
Failure == IF ctx = "live" THEN ConnRefused ELSE Canceled

\* ------------------------------------------------------------------------
\* Actions of a query
\* ------------------------------------------------------------------------
\* the handler of /api/query: a body that does not bind is answered at once
\* (pc "Rejected"), any other query text goes to QueryWithMCP
mcpQuery ==
  /\ queryCall.pc = "idle"
  /\ \E query \in Queries :
       queryCall' = IF query = NoText THEN [IdleQuery EXCEPT !.pc = "Rejected"]
                    ELSE QueryWithMCP(query, mcpService)
  /\ UNCHANGED <<k8sService, mcpService, tools, ctx, gatherCall, logsCall, calls, apiRequest>>

\* a handler that answers a response that carries an error as a failure
StatusCodeStrict(q) ==
  IF q.pc = "Rejected" THEN 400
  ELSE IF q.pc = "Done"
    THEN (IF q.ret.kind = "error" \/ q.ret.resp.Error # NoText THEN 500 ELSE 200)
  ELSE 0

\* the status the handler answers with
StatusCode(q) ==
  IF q.pc = "Rejected" THEN 400
  ELSE IF q.pc = "Done" THEN (IF q.ret.kind = "error" THEN 500 ELSE 200)
  ELSE 0

\* the body the handler answers with: the error of the binding, a fixed
\* text, or the response of QueryWithMCP
Body(q) ==
  IF q.pc = "Rejected"
    THEN QueryResponse(NoText, FALSE, NoText, NoText, <<"Field validation for 'Query' failed">>)
  ELSE IF q.pc = "Done" /\ q.ret.kind = "error"
    THEN QueryResponse(NoText, FALSE, NoText, NoText, <<"Failed to process query">>)
  ELSE q.ret.resp

\* the frames of the cluster call a tool has pending
StartCall(q) ==
  /\ gatherCall' = IF q.pc = "ToolCall" /\ q.call.op = "gather"
                     THEN GatherResources(q.call.resourceTypes, q.call.namespace,
                                          q.call.labelSelector)
                     ELSE gatherCall
  /\ logsCall' = IF q.pc = "ToolCall" /\ q.call.op = "logs"
                   THEN LogsFrame(q.call.namespace, q.call.podName,
                                  q.call.containerName, q.call.lines)
                   ELSE logsCall

\* model.GenerateContent of line 230 returns
FirstModelReturns ==
  /\ queryCall.pc = "Decide"
  /\ \E out \in IF ctx # "live" THEN {ModelOutcome("err", Canceled)}
                ELSE {ModelOutcome("err", ConnRefused), ModelOutcome("empty", NoText)}
                       \cup {ModelOutcome("text", t) : t \in ModelTexts} :
       LET q == Decide(queryCall, out, k8sService) IN
         /\ queryCall' = q
         /\ StartCall(q)
         /\ tools' = ToolsAfter(tools, queryCall, q)
  /\ UNCHANGED <<k8sService, mcpService, ctx, calls, apiRequest>>

\* a List call of GatherResources returns
ListReturns ==
  /\ gatherCall.pc = "list"
  /\ \E out \in IF ctx # "live" THEN {ListOutcome(FALSE, << >>, Canceled)}
                ELSE {ListOutcome(FALSE, << >>, ConnRefused)}
                       \cup {ListOutcome(TRUE, items, NoText) :
                               items \in ClusterLists(gatherCall.resourceTypes[gatherCall.i])} :
       LET g == GatherListReturn(gatherCall, out) IN
         /\ gatherCall' = g
         /\ queryCall' = IF g.pc = "done" /\ queryCall.pc = "ToolCall"
                           THEN AfterTool(queryCall, GatherToolEnd(queryCall.call, g.ret))
                           ELSE queryCall
  /\ UNCHANGED <<k8sService, mcpService, tools, ctx, logsCall, calls, apiRequest>>

\* request.Stream of GetPodLogs returns
StreamReturns ==
  /\ logsCall.pc = "stream"
  /\ \E ok \in IF ctx # "live" THEN {FALSE} ELSE BOOLEAN :
       LET l == LogsStreamReturn(logsCall, ListOutcome(ok, << >>, Failure)) IN
         /\ logsCall' = l
         /\ queryCall' = IF l.pc = "done" /\ queryCall.pc = "ToolCall"
                           THEN AfterTool(queryCall, PodLogsEnd(queryCall.call, l.ret))
                           ELSE queryCall
  /\ UNCHANGED <<k8sService, mcpService, tools, ctx, gatherCall, calls, apiRequest>>

\* a Read of the log stream returns: a chunk, a chunk with an error, or the
\* end of the stream or a failure without a chunk
ReadReturns ==
  /\ logsCall.pc = "read"
  /\ \E out \in {ReadOutcome(NoText, e) :
                    e \in IF ctx # "live" THEN {Errorf(Canceled)}
                          ELSE {Errorf(EOF), Errorf(ConnRefused)}}
                  \cup {ReadOutcome(c, e) :
                          c \in IF Len(logsCall.result) < MaxChunks THEN Chunks ELSE {},
                          e \in IF ctx # "live" THEN {Errorf(Canceled)}
                                ELSE {NilErr, Errorf(EOF), Errorf(ConnRefused)}} :
       LET l == LogsReadReturn(logsCall, out) IN
         /\ logsCall' = l
         /\ queryCall' = IF l.pc = "done" /\ queryCall.pc = "ToolCall"
                           THEN AfterTool(queryCall, PodLogsEnd(queryCall.call, l.ret))
                           ELSE queryCall
  /\ UNCHANGED <<k8sService, mcpService, tools, ctx, gatherCall, calls, apiRequest>>

\* model.GenerateContent of line 341 returns
SecondModelReturns ==
  /\ queryCall.pc = "Analyze"
  /\ \E out \in IF ctx # "live" THEN {ModelOutcome("err", Canceled)}
                ELSE {ModelOutcome("err", ConnRefused), ModelOutcome("empty", NoText)}
                       \cup {ModelOutcome("text", t) : t \in AnalysisTexts} :
       queryCall' = Analyze(queryCall, out)
  /\ UNCHANGED <<k8sService, mcpService, tools, ctx, gatherCall, logsCall, calls, apiRequest>>

\* the outbound call that is in flight
InFlight ==
  IF queryCall.pc = "Decide" THEN "model1"
  ELSE IF queryCall.pc = "Analyze" THEN "model2"
  ELSE IF gatherCall.pc = "list" \/ logsCall.pc \in {"stream", "read"} THEN "cluster"
  ELSE "none"

\* the caller cancels the context while an outbound call is in flight
Cancel ==
  /\ ctx = "live"
  /\ InFlight # "none"
  /\ ctx' = InFlight
  /\ UNCHANGED <<k8sService, mcpService, tools, queryCall, gatherCall, logsCall, calls, apiRequest>>

Next ==
  \/ mcpQuery
  \/ FirstModelReturns
  \/ ListReturns
  \/ StreamReturns
  \/ ReadReturns
  \/ SecondModelReturns
  \/ Cancel

Spec == Init /\ [][Next]_vars

\* ------------------------------------------------------------------------
\* Actions of a gather call made by gatherResources of the API or by the
\* analyze command
\* ------------------------------------------------------------------------
\* the resource types a request names: kinds that list plainly, the kind
\* that is redacted, and a name the switch does not know
RequestedKinds == {"pods", "services", "secrets", "events", "bogus"}

ResourceTypeLists == SeqsUpTo(RequestedKinds, MaxTypes)

Namespaces == {NoText, <<"prod">>}

LabelSelectors == {NoText, <<"app=web">>}

Gather ==
  /\ gatherCall.pc = "idle"
  /\ k8sService # "nil"
  /\ \E resourceTypes \in ResourceTypeLists, namespace \in Namespaces,
        labelSelector \in LabelSelectors :
       gatherCall' = GatherResources(resourceTypes, namespace, labelSelector)
  /\ UNCHANGED <<k8sService, mcpService, tools, ctx, queryCall, logsCall, calls, apiRequest>>

NextGather ==
  \/ Gather
  \/ ListReturns
  \/ Cancel

SpecGather == Init /\ [][NextGather]_vars

\* ------------------------------------------------------------------------
\* Actions of requests served at the same time, each in its goroutine on the
\* same ai.Service, MCPService and kubernetes.Service
\* ------------------------------------------------------------------------
\* the texts the first model call returns to them: an answer, a decision for
\* a tool that gathers, for the logs of a pod, for an unknown tool, and prose
ConcurrentTexts ==
  {StrictOf(<<"action:answer", ResponseOpen, Word, Quote>>),
   StrictOf(<<"action:use_tool", "tool:get_pod_health">>),
   StrictOf(<<"action:use_tool", "tool:get_pod_logs", ArgumentsKey, LBrace,
              "podName:web-1", RBrace>>),
   StrictOf(<<"action:use_tool", "tool:restart_pod">>),
   <<Word>>}

\* the query text of their bodies; the text reaches the prompts only
ConcurrentQueries == {<<"What is the health of my pods?">>}

\* what the call in flight of execution e may return
Answers(e) ==
  IF e.q.pc = "Decide"
    THEN {ModelOutcome("err", ConnRefused), ModelOutcome("empty", NoText)}
           \cup {ModelOutcome("text", t) : t \in ConcurrentTexts}
  ELSE IF e.q.pc = "Analyze"
    THEN {ModelOutcome("err", ConnRefused), ModelOutcome("empty", NoText)}
           \cup {ModelOutcome("text", t) : t \in AnalysisTexts}
  ELSE IF e.q.pc # "ToolCall" THEN {}
  ELSE IF e.g.pc = "list"
    THEN {ListOutcome(FALSE, << >>, ConnRefused)}
           \cup {ListOutcome(TRUE, items, NoText) : items \in ClusterLists(e.g.resourceTypes[e.g.i])}
  ELSE IF e.l.pc = "stream"
    THEN {ListOutcome(ok, << >>, ConnRefused) : ok \in BOOLEAN}
  ELSE IF e.l.pc = "read"
    THEN {ReadOutcome(NoText, Errorf(EOF))}
           \cup {ReadOutcome(c, NilErr) :
                   c \in IF Len(e.l.result) < MaxChunks THEN Chunks ELSE {}}
  ELSE {}

\* model.GenerateContent of line 230 returns one of the texts above
FirstModelReturnsText ==
  /\ queryCall.pc = "Decide"
  /\ \E out \in IF ctx # "live" THEN {ModelOutcome("err", Canceled)}
                ELSE {ModelOutcome("err", ConnRefused), ModelOutcome("empty", NoText)}
                       \cup {ModelOutcome("text", t) : t \in ConcurrentTexts} :
       LET q == Decide(queryCall, out, k8sService) IN
         /\ queryCall' = q
         /\ StartCall(q)
         /\ tools' = ToolsAfter(tools, queryCall, q)
  /\ UNCHANGED <<k8sService, mcpService, ctx, calls, apiRequest>>

NextFair ==
  \/ mcpQuery
  \/ FirstModelReturnsText
  \/ ListReturns
  \/ StreamReturns
  \/ ReadReturns
  \/ SecondModelReturns
  \/ Cancel

\* a query every outbound call of which returns: the two model calls, the
\* List call, the opening of the log stream and the reads of the log stream,
\* which ends
FairSpec ==
  /\ Init
  /\ [][NextFair]_vars
  /\ WF_vars(FirstModelReturnsText)
  /\ WF_vars(ListReturns)
  /\ WF_vars(StreamReturns)
  /\ WF_vars(ReadReturns)
  /\ WF_vars(SecondModelReturns)

\* a request arrives and its handler calls QueryWithMCP
Query(i) ==
  /\ calls[i].q.pc = "idle"
  /\ \E query \in ConcurrentQueries :
       calls' = Written(calls, i, Begin(query, mcpService))
  /\ UNCHANGED <<k8sService, mcpService, tools, ctx, queryCall, gatherCall, logsCall, apiRequest>>

\* the outbound call of execution i returns
Returns(i) ==
  /\ \E out \in Answers(calls[i]) :
       LET e == Resume(calls[i], out, k8sService) IN
         /\ calls' = Written(calls, i, e)
         /\ tools' = ToolsAfter(tools, calls[i].q, e.q)
  /\ UNCHANGED <<k8sService, mcpService, ctx, queryCall, gatherCall, logsCall, apiRequest>>

NextConcurrent ==
  \/ \E i \in Ids : Query(i)
  \/ \E i \in Ids : Returns(i)

SpecConcurrent == Init /\ [][NextConcurrent]_vars

\* ------------------------------------------------------------------------
\* Actions of a request of the API client
\* ------------------------------------------------------------------------
\* the error messages and descriptions a caller submits
Messages ==
  {NoText, <<"ImagePullBackOff">>, <<"CrashLoopBackOff">>, <<"Pod failing to start">>,
   <<"OOMKilled">>, <<"ErrImagePull">>, <<"FailedScheduling">>, <<"Evicted">>}

\* kubeSherlockAPI.troubleshoot, suggestResources or mcpQuery posts its body
\* and the handler of the route binds it
ClientCalls ==
  /\ apiRequest.pc = "idle"
  /\ \E endpoint \in Endpoints, text \in Messages :
       apiRequest' = Handle("client", endpoint, ClientBody(endpoint, text))
  /\ UNCHANGED <<k8sService, mcpService, tools, ctx, queryCall, gatherCall, logsCall, calls>>

\* a call as the documentation shows it
DocumentedCall ==
  /\ apiRequest.pc = "idle"
  /\ \E endpoint \in DOMAIN DocumentedFields, text \in Messages :
       \E field \in DocumentedFields[endpoint] :
         apiRequest' = Handle("curl", endpoint, (field :> text))
  /\ UNCHANGED <<k8sService, mcpService, tools, ctx, queryCall, gatherCall, logsCall, calls>>

\* TroubleshootError, SuggestResources or QueryWithMCP returns to the handler
ServiceReturns ==
  /\ apiRequest.pc = "service"
  /\ \E ok \in BOOLEAN : apiRequest' = Answered(apiRequest, ok)
  /\ UNCHANGED <<k8sService, mcpService, tools, ctx, queryCall, gatherCall, logsCall, calls>>

NextClient ==
  \/ ClientCalls
  \/ DocumentedCall
  \/ ServiceReturns

SpecClient == Init /\ [][NextClient]_vars

\* ------------------------------------------------------------------------
\* Properties
\* ------------------------------------------------------------------------
\* a ends with b
EndsWith(a, b) ==
  Len(b) <= Len(a) /\ SubSeq(a, Len(a) - Len(b) + 1, Len(a)) = b

IsSupported(kind) == kind \in SupportedKinds

ListedKinds(g) == [j \in 1..Len(g.listed) |-> g.listed[j].kind]

\* C1: a gather call returns a result and no error, and has issued the List
\* call of every supported kind of its list, in the order of the list,
\* whichever kinds before it failed or were unsupported.
C1_GatherIsolatesFailures ==
  /\ gatherCall.pc = "done" =>
       /\ gatherCall.ret.err.nil
       /\ ListedKinds(gatherCall) = SelectSeq(gatherCall.resourceTypes, IsSupported)
  /\ gatherCall.pc = "list" =>
       ListedKinds(gatherCall)
         = SelectSeq(SubSeq(gatherCall.resourceTypes, 1, gatherCall.i), IsSupported)

\* a call whose first kind failed, whose second kind is unsupported and whose
\* third kind was listed and stored all the same
C1_Witness ==
  /\ gatherCall.pc = "done"
  /\ Len(gatherCall.resourceTypes) = 3
  /\ gatherCall.resourceTypes[1] \in SupportedKinds
  /\ ErrorKey[gatherCall.resourceTypes[1]] \in DOMAIN gatherCall.resources
  /\ gatherCall.resourceTypes[2] \notin SupportedKinds
  /\ gatherCall.resourceTypes[3] \in SupportedKinds \ {gatherCall.resourceTypes[1]}
  /\ gatherCall.resourceTypes[3] \in DOMAIN gatherCall.resources
  /\ gatherCall.ret.err.nil

\* two lists of secrets that differ at most in the payloads
SamePayloadFree(a, b) ==
  /\ Len(a) = Len(b)
  /\ \A i \in 1..Len(a) : a[i].Name = b[i].Name

\* C2: the items of a secrets collection in the resources of a gather call
\* have empty Data and StringData, and the entry is the one the call would
\* hold had the cluster returned the same secrets with any other payloads.
C2_SecretsRedacted ==
  "secrets" \in DOMAIN gatherCall.resources =>
    /\ \A i \in 1..Len(gatherCall.resources["secrets"].Items) :
         /\ gatherCall.resources["secrets"].Items[i].Data = {}
         /\ gatherCall.resources["secrets"].Items[i].StringData = {}
    /\ \A other \in ClusterLists("secrets") :
         SamePayloadFree(other, gatherCall.returned["secrets"]) =>
           Stored("secrets", other) = gatherCall.resources["secrets"]

\* a returned result with a secret for which the cluster sent both payloads
C2_Witness ==
  /\ gatherCall.pc = "done"
  /\ "secrets" \in DOMAIN gatherCall.ret.Resources
  /\ \E i \in 1..Len(gatherCall.returned["secrets"]) :
       /\ gatherCall.returned["secrets"][i].Data # {}
       /\ gatherCall.returned["secrets"][i].StringData # {}
       /\ gatherCall.ret.Resources["secrets"].Items[i].Data = {}
  /\ gatherCall.namespace = <<"prod">>
  /\ gatherCall.labelSelector # NoText
  /\ Len(gatherCall.resourceTypes) > 1

Q == queryCall

QueryDone == Q.pc = "Done"

\* the cluster call made for the tool of the query failed: the List call of
\* the gather, or the opening of the log stream
ClusterCallFailed ==
  \/ /\ gatherCall.pc = "done"
     /\ \E k \in SupportedKinds : ErrorKey[k] \in DOMAIN gatherCall.resources
  \/ /\ logsCall.pc = "done"
     /\ ~logsCall.ret.err.nil

\* C3: when the cluster call made for a tool of the catalog fails, the tool
\* returns an error outcome and the response of the query has usedTool set,
\* an error, and a text that carries the failure.
C3_ClusterFailureReported ==
  (QueryDone /\ Q.executed /\ Q.aiAction.Tool \in Tools /\ ClusterCallFailed) =>
    /\ Q.toolResult.IsError
    /\ ~Q.toolErr.nil
    /\ Q.ret.kind = "response"
    /\ Q.ret.resp.UsedTool
    /\ Q.ret.resp.Error # NoText
    /\ Q.ret.resp.Response # NoText

\* C4: when ExecuteTool returns an error, the query returns a response and no
\* error: usedTool is set, toolUsed is the tool of the decision parsed from
\* the model text, error is the text of the error and response ends with it.
C4_ToolErrorBecomesResponse ==
  (QueryDone /\ Q.executed /\ ~Q.toolErr.nil) =>
    /\ Q.ret.kind = "response"
    /\ Q.ret.err = NoText
    /\ Q.ret.resp.UsedTool
    /\ Q.ret.resp.ToolUsed = ParseDecision(Q.responseText).val.Tool
    /\ Q.ret.resp.Error = Q.toolErr.msg
    /\ Q.ret.resp.Error # NoText
    /\ EndsWith(Q.ret.resp.Response, Q.toolErr.msg)
    /\ Q.ret.resp.Response # Q.toolErr.msg

\* a query whose get_pod_logs tool failed on the cluster
C4_Witness ==
  /\ QueryDone
  /\ Q.executed
  /\ Q.aiAction.Tool = <<"get_pod_logs">>
  /\ Q.toolErr.msg = <<"failed to get pod logs: ">> \o ConnRefused
  /\ Q.ret.kind = "response"
  /\ Q.ret.resp.Error = Q.toolErr.msg

\* C5 as claimed: a query whose context was cancelled during one of its
\* outbound calls returns a request-level error.
C5_CancelIsRequestError ==
  (QueryDone /\ ctx # "live") => Q.ret.kind = "error"

\* C5 as amended: cancelled during the first model call, the query returns a
\* request-level error; cancelled during the cluster call of the tool or
\* during the second model call, it returns a response with usedTool set.
C5_CancelByPhase ==
  QueryDone =>
    /\ ctx = "model1" => (Q.ret.kind = "error" /\ Q.issued = <<"model1">>)
    /\ ctx \in {"cluster", "model2"} => (Q.ret.kind = "response" /\ Q.ret.resp.UsedTool)

\* a query cancelled while its tool waited for the cluster
C5_Witness ==
  /\ QueryDone
  /\ ctx = "cluster"
  /\ Q.ret.kind = "response"
  /\ Q.ret.resp.UsedTool

\* C6 as claimed: a request-level error is returned only for an invalid query
\* text or a first model call without usable content.
C6_ErrorOnlyFromQueryOrModel ==
  (QueryDone /\ Q.ret.kind = "error") =>
    (Q.query = NoText \/ Q.first \in {"err", "empty"})

\* C6 as amended: a request-level error is returned only for an invalid query
\* text, a missing MCP service, or a first model call without usable
\* content; a missing MCP service and a failed first call do return it.
C6_ErrorOnlyFromQueryModelOrMCP ==
  QueryDone =>
    /\ Q.ret.kind = "error" =>
         (Q.query = NoText \/ mcpService = "nil" \/ Q.first \in {"err", "empty"})
    /\ (mcpService = "nil" \/ Q.first \in {"err", "empty"}) => Q.ret.kind = "error"
    /\ Q.ret.kind \in {"error", "response"}

\* a valid query that fails because the MCP service is missing
C6_Witness ==
  /\ QueryDone
  /\ Q.query # NoText
  /\ mcpService = "nil"
  /\ Q.first = "none"
  /\ Q.ret.kind = "error"

\* the text as a whole is an object that decodes
WholeTextDecodes(text) ==
  /\ TrimSpace(text) # << >>
  /\ Head(TrimSpace(text)) = LBrace
  /\ Unmarshal(text, ZeroAction).ok

\* C7: a response returned for a model text that is a JSON object, whatever
\* its action, has a text that is not empty.
C7_ResponseNeverEmpty ==
  (QueryDone /\ Q.ret.kind = "response" /\ WholeTextDecodes(Q.responseText)) =>
    Q.ret.resp.Response # NoText

\* C8: after a tool that returned no error (and whose cluster call did not
\* fail), a second model call that fails or has no candidate content gives a
\* response that carries the tool text.
C8_FallbackToToolText ==
  (QueryDone /\ Q.executed /\ Q.toolErr.nil /\ ~ClusterCallFailed
     /\ Q.second \in {"err", "empty"}) =>
    /\ Q.ret.kind = "response"
    /\ Q.toolOutput # NoText
    /\ EndsWith(Q.ret.resp.Response, Q.toolOutput)

\* C9 as claimed: after an outcome with isError set, the second model call
\* is issued.
C9_ErrorOutcomeIsAnalyzed ==
  (Q.executed /\ Q.toolResult.IsError) => Contains(Q.issued, "model2")

\* C9 as amended: after an outcome with isError set the query is over with a
\* response that has usedTool set and the error, and neither a tool text nor
\* a second model call; after any other outcome the text of the content
\* blocks is the tool text and the second model call is issued.
C9_ErrorOutcomeEndsQuery ==
  /\ (Q.executed /\ Q.toolResult.IsError) =>
       /\ QueryDone
       /\ Q.ret.kind = "response"
       /\ Q.ret.resp.UsedTool
       /\ Q.ret.resp.Error = Q.toolErr.msg
       /\ Q.toolOutput = NoText
       /\ ~Contains(Q.issued, "model2")
  /\ (Q.executed /\ ~Q.toolResult.IsError) =>
       /\ Contains(Q.issued, "model2")
       /\ Q.toolOutput = Q.toolResult.Content[1].Text \o <<Newline>>

\* a query that ended on the error outcome of a tool of the catalog
C9_Witness ==
  /\ QueryDone
  /\ Q.executed
  /\ Q.toolResult.IsError
  /\ Q.aiAction.Tool \in Tools
  /\ Q.issued = <<"model1", "tool">>

\* C10: when the model text as a whole is an object that decodes, the
\* decision of the query is that object.
C10_WholeTextFirst ==
  (Q.first = "text" /\ WholeTextDecodes(Q.responseText)) =>
    /\ Q.parsed
    /\ Q.aiAction = Unmarshal(Q.responseText, ZeroAction).val

\* the three forms of a model text: the object alone, the object in a fenced
\* json block, the object with prose before and after it
Forms ==
  {<< << >>, << >> >>, << <<FenceJSON, Newline>>, <<Newline, Fence>> >>,
   << <<Word>>, <<Word>> >>}

DecisionBodies == ToolBodies \cup AnswerBodies

\* C11: the decision a query holds for a model text that is a decision object
\* in one of the three forms is the decision parsed from the object as
\* strict JSON.
C11_FormsParseAlike ==
  \A w \in Forms, b \in DecisionBodies :
    (Q.first = "text" /\ Q.responseText = w[1] \o StrictOf(b) \o w[2]) =>
      /\ Q.parsed = ParseDecision(StrictOf(b)).ok
      /\ Q.aiAction = ParseDecision(StrictOf(b)).val

\* no stage of the parser decodes the text: not the whole text, not the text
\* of the fenced block, not the text from the first { to the last }
NoStageParses(text) ==
  /\ ~Unmarshal(text, ZeroAction).ok
  /\ ~Unmarshal(FencedText(text), ZeroAction).ok
  /\ ~(BraceSpan(text).ok /\ Unmarshal(BraceSpan(text).text, ZeroAction).ok)

\* C12: when no stage of the parser decodes the text of the first model call,
\* the query is over with a response whose text is the model text as it came
\* and whose usedTool is not set; no tool was executed and no second model
\* call was issued.
C12_UnparsedTextVerbatim ==
  (Q.first = "text" /\ NoStageParses(Q.responseText)) =>
    /\ QueryDone
    /\ Q.ret.kind = "response"
    /\ Q.ret.err = NoText
    /\ Q.ret.resp = QueryResponse(Q.responseText, FALSE, NoText, NoText, NoText)
    /\ ~Q.executed
    /\ Q.issued = <<"model1">>
    /\ Q.second = "none"

\* a text that starts with white space and has a brace and a fence marker, and
\* comes back as it is
C12_Witness ==
  /\ QueryDone
  /\ Q.first = "text"
  /\ NoStageParses(Q.responseText)
  /\ Q.responseText = <<Newline, LBrace, FenceJSON>>
  /\ Q.ret.resp.Response = Q.responseText

\* C13: a tool name that is not in the catalog gets an outcome with isError
\* set and the text "Unknown tool: " followed by the name, next to an error
\* that names it too; no call on the cluster is made, and the query is over
\* with a response.
C13_UnknownToolIsErrorOutcome ==
  (Q.executed /\ Q.aiAction.Tool \notin Tools) =>
    /\ Q.toolResult.IsError
    /\ Len(Q.toolResult.Content) = 1
    /\ Q.toolResult.Content[1].Text = <<"Unknown tool: ">> \o Q.aiAction.Tool
    /\ Q.toolErr = Errorf(<<"unknown tool: ">> \o Q.aiAction.Tool)
    /\ gatherCall.pc = "idle"
    /\ logsCall.pc = "idle"
    /\ QueryDone
    /\ Q.ret.kind = "response"

\* a decision for a tool the catalog does not have
C13_Witness ==
  /\ Q.executed
  /\ Q.aiAction.Tool = <<"restart_pod">>
  /\ Q.toolResult.IsError
  /\ EndsWith(Q.toolResult.Content[1].Text, <<"restart_pod">>)

\* the list has the two kinds a and b, in one order or the other
IsPairOf(resourceTypes, a, b) == resourceTypes \in {<<a, b>>, <<b, a>>}

\* the call with the kinds of g in the opposite order, up to its List call
SwappedCall(g) ==
  GatherResources(<<g.resourceTypes[2], g.resourceTypes[1]>>, g.namespace, g.labelSelector)

\* the same call after the cluster returned the list it returned to g
Swapped(g, a) ==
  GatherListReturn(SwappedCall(g), ListOutcome(TRUE, g.returned[a], NoText))

\* C14: a gather call for a supported kind a whose List call succeeded and an
\* unsupported kind b returns the collection under a and the text
\* "unsupported resource type: b" under b_error, nothing else and no error;
\* the call with the two kinds in the opposite order returns the same.
C14_ValidAndInvalidAnyOrder ==
  \A a \in SupportedKinds, b \in Kinds \ SupportedKinds :
    (gatherCall.pc = "done" /\ IsPairOf(gatherCall.resourceTypes, a, b)
       /\ a \in DOMAIN gatherCall.returned) =>
      /\ gatherCall.ret.err.nil
      /\ DOMAIN gatherCall.ret.Resources = {a, ErrorKey[b]}
      /\ gatherCall.ret.Resources[a] = Stored(a, gatherCall.returned[a])
      /\ gatherCall.ret.Resources[ErrorKey[b]]
           = ErrorEntry(<<"unsupported resource type: ", b>>)
      /\ SwappedCall(gatherCall).pc = "list"
      /\ SwappedCall(gatherCall).resourceTypes[SwappedCall(gatherCall).i] = a
      /\ Swapped(gatherCall, a).pc = "done"
      /\ Swapped(gatherCall, a).ret = gatherCall.ret

\* scenario 4 with the unsupported kind first: bogus and pods in namespace prod
C14_Witness ==
  /\ gatherCall.pc = "done"
  /\ gatherCall.resourceTypes = <<"bogus", "pods">>
  /\ gatherCall.namespace = <<"prod">>
  /\ "pods" \in DOMAIN gatherCall.ret.Resources
  /\ "bogus_error" \in DOMAIN gatherCall.ret.Resources

\* a cluster call of the tool is in flight
ClusterInFlight == gatherCall.pc = "list" \/ logsCall.pc \in {"stream", "read"}

\* C15: the outbound calls a query has issued are a prefix of first model
\* call, tool execution, second model call.  The tool is executed only for a
\* use_tool decision parsed from the text of the first model call, the
\* second model call is issued only after the tool returned, a model call that
\* returned is not issued again, and while a model call is in flight no
\* cluster call is.
C15_CallsArePrefix ==
  /\ Q.issued \in {<< >>, <<"model1">>, <<"model1", "tool">>, <<"model1", "tool", "model2">>}
  /\ Contains(Q.issued, "tool") =>
       /\ Q.first = "text"
       /\ Q.parsed
       /\ Q.aiAction.Action = <<"use_tool">>
  /\ Contains(Q.issued, "model2") => (Q.executed /\ ~ClusterInFlight)
  /\ Q.pc = "Decide" => (Q.issued = <<"model1">> /\ ~ClusterInFlight)
  /\ Q.pc = "ToolCall" => (Q.issued = <<"model1", "tool">> /\ ClusterInFlight)
  /\ Q.pc = "Analyze" => Q.issued = <<"model1", "tool", "model2">>
  /\ Q.first \in {"err", "empty"} => (QueryDone /\ Q.issued = <<"model1">>)
  /\ Q.first = "text" => Q.pc \in {"ToolCall", "Analyze", "Done"}
  /\ Q.second # "none" => QueryDone

\* a query whose three calls were issued and whose second model call failed
C15_Witness ==
  /\ QueryDone
  /\ Q.issued = <<"model1", "tool", "model2">>
  /\ Q.second = "err"
  /\ Q.ret.kind = "response"

\* the arguments name no pod: podName is absent, not a string, or empty
NoPodName(args) ==
  \/ "podName" \notin DOMAIN args
  \/ args["podName"].t # "string"
  \/ args["podName"].s = NoText

\* C16: get_pod_logs with arguments that name no pod returns an outcome with
\* isError set next to the error "pod name is required", and no call for the
\* logs is made on the cluster; a call that is made asks for the pod the
\* arguments name.
C16_PodNameRequired ==
  (Contains(Q.issued, "tool") /\ Q.aiAction.Tool = <<"get_pod_logs">>) =>
    /\ NoPodName(Q.aiAction.Arguments) =>
         /\ Q.executed
         /\ Q.toolResult.IsError
         /\ Q.toolResult.Content[1].Text = <<"Pod name is required for getting logs">>
         /\ Q.toolErr = Errorf(<<"pod name is required">>)
         /\ logsCall.pc = "idle"
         /\ gatherCall.pc = "idle"
    /\ ~NoPodName(Q.aiAction.Arguments) =>
         /\ logsCall.pc # "idle"
         /\ logsCall.podName = Q.aiAction.Arguments["podName"].s

\* get_pod_logs with a number for podName
C16_Witness ==
  /\ Q.executed
  /\ Q.aiAction.Tool = <<"get_pod_logs">>
  /\ "podName" \in DOMAIN Q.aiAction.Arguments
  /\ Q.aiAction.Arguments["podName"] = NumVal(7)
  /\ Q.toolResult.IsError
  /\ logsCall.pc = "idle"

\* C17: after a use_tool decision, a tool that returned no error and a second
\* model call that returned a text, the response of the query has usedTool
\* set, the tool of the decision as toolUsed, the text of the second call as
\* response, and as rawData the text of the content block of the outcome with
\* the newline the concatenation puts after it; no error is set.
C17_AnalyzedResponse ==
  (Q.executed /\ Q.toolErr.nil /\ Q.second = "text") =>
    /\ QueryDone
    /\ Q.ret.kind = "response"
    /\ Q.aiAction.Action = <<"use_tool">>
    /\ Q.ret.resp.UsedTool
    /\ Q.ret.resp.ToolUsed = Q.aiAction.Tool
    /\ Q.ret.resp.ToolUsed \in Tools
    /\ Q.ret.resp.Response = Q.secondText
    /\ Len(Q.toolResult.Content) = 1
    /\ Q.ret.resp.RawData = Q.toolResult.Content[1].Text \o <<Newline>>
    /\ Q.ret.resp.RawData # NoText
    /\ Q.ret.resp.Error = NoText

\* scenario 2: get_pod_health, the pods listed, a narrative from the model
C17_Witness ==
  /\ QueryDone
  /\ Q.aiAction.Tool = <<"get_pod_health">>
  /\ gatherCall.pc = "done"
  /\ "pods" \in DOMAIN gatherCall.ret.Resources
  /\ Q.second = "text"
  /\ Q.ret.resp.Response = <<"## Current state">>
  /\ Q.ret.resp.RawData # NoText

\* the decision a model text is when the text as a whole is an object
Strict(text) == Unmarshal(text, ZeroAction).val

\* C18: when the text of the first model call is a decision object with the
\* action answer, the query is over with a response that has the response
\* field of the object as text and usedTool not set; no tool was executed and
\* no second model call was issued.
C18_AnswerIsReturned ==
  (Q.first = "text" /\ WholeTextDecodes(Q.responseText)
     /\ Strict(Q.responseText).Action = <<"answer">>) =>
    /\ QueryDone
    /\ ~Q.executed
    /\ Q.issued = <<"model1">>
    /\ Q.ret.kind = "response"
    /\ Q.ret.resp = QueryResponse(Strict(Q.responseText).Response, FALSE, NoText, NoText, NoText)

\* the execution replayed from answer n on
RECURSIVE Replay(_, _, _, _)
Replay(e, answers, n, k8s) ==
  IF n > Len(answers) THEN e
  ELSE Replay(Resume(e, answers[n], k8s), answers, n + 1, k8s)

\* the execution of the query of e run alone and given the answers e got
Alone(e) == Replay(Begin(e.q.query, mcpService), e.answers, 1, k8sService)

\* C19: whatever the interleaving of the executions, the frames of each, and
\* with them the result it returns, are those of the same query run alone
\* and given the same answers of the model and of the cluster.
C19_ConcurrentAsAlone ==
  \A i \in Ids :
    calls[i].q.pc # "idle" =>
      /\ calls[i] = Alone(calls[i])
      /\ calls[i].q.pc = "Done" => calls[i].q.ret = Alone(calls[i]).q.ret

\* two executions in flight after their decisions, one about to ask the model
\* for the analysis of the pods, one reading the logs of a pod
C19_Witness ==
  /\ calls[1].q.pc = "Analyze"
  /\ calls[1].q.aiAction.Tool = <<"get_pod_health">>
  /\ calls[2].q.pc = "ToolCall"
  /\ calls[2].l.pc = "read"
  /\ calls[2].q.aiAction.Tool = <<"get_pod_logs">>
  /\ calls[2].l.result # NoText

\* C20: the catalog of an MCPService is what registerTools wrote: the five
\* tools, each under its own name, and ListTools returns these five; no
\* start of a query and no execution of a tool, in the catalog or not,
\* changes it.
C20_CatalogUnchanged ==
  mcpService = "set" =>
    /\ tools = registerTools
    /\ DOMAIN tools
         = {<<"get_pod_health">>, <<"get_deployment_status">>, <<"get_service_endpoints">>,
            <<"get_recent_events">>, <<"get_pod_logs">>}
    /\ \A name \in DOMAIN tools : tools[name].Name = name
    /\ Cardinality(ListTools(tools)) = 5
    /\ {t.Name : t \in ListTools(tools)} = DOMAIN tools

\* a query that executed a tool the catalog does not have
C20_Witness ==
  /\ QueryDone
  /\ Q.executed
  /\ Q.aiAction.Tool = <<"restart_pod">>
  /\ <<"restart_pod">> \notin DOMAIN tools
  /\ Cardinality(DOMAIN tools) = 5

\* C21: the handler of /api/query answers 400 to a body whose query is
\* missing or empty, and QueryWithMCP is not called; every other body reaches
\* QueryWithMCP; a request-level error is answered 500 with a fixed text, a
\* response 200 with the response as body, also when the response reports an
\* unknown tool or a pod name that is missing.
C21_HandlerStatus ==
  /\ Q.pc = "Rejected" =>
       /\ StatusCode(Q) = 400
       /\ Q.query = NoText
       /\ Q.issued = << >>
       /\ Q.ret = NotReturned
  /\ Q.pc \notin {"idle", "Rejected"} => Q.query # NoText
  /\ (QueryDone /\ Q.ret.kind = "error") =>
       /\ StatusCode(Q) = 500
       /\ Body(Q).Error = <<"Failed to process query">>
  /\ (QueryDone /\ Q.ret.kind = "response") =>
       /\ StatusCode(Q) = 200
       /\ Body(Q) = Q.ret.resp
  /\ (QueryDone /\ Q.executed
        /\ (Q.aiAction.Tool \notin Tools
              \/ (Q.aiAction.Tool = <<"get_pod_logs">> /\ NoPodName(Q.aiAction.Arguments)))) =>
       /\ StatusCode(Q) = 200
       /\ Body(Q).Error # NoText
       /\ Body(Q).UsedTool

\* a query answered 200 with a response that reports that podName is missing
C21_Witness ==
  /\ QueryDone
  /\ Q.executed
  /\ Q.aiAction.Tool = <<"get_pod_logs">>
  /\ NoPodName(Q.aiAction.Arguments)
  /\ StatusCode(Q) = 200
  /\ Body(Q).Error = <<"pod name is required">>

\* C22: a GetPodLogs call that has returned has returned either the whole
\* text of the log and no error, or an error and no text; a call whose stream
\* failed to open, or one of whose reads failed before the end of the stream,
\* has returned the error.
C22_LogsWholeOrError ==
  logsCall.pc = "done" =>
    /\ \/ logsCall.ret.err.nil /\ logsCall.err.msg = EOF
       \/ ~logsCall.ret.err.nil /\ logsCall.ret.logs = NoText
    /\ (~logsCall.err.nil /\ logsCall.err.msg # EOF) =>
         ~logsCall.ret.err.nil /\ logsCall.ret.logs = NoText

\* the kinds a gather call was asked for, and how often it was asked for one
Requested(g) == {g.resourceTypes[j] : j \in 1..Len(g.resourceTypes)}

TimesRequested(g, kind) ==
  Cardinality({j \in 1..Len(g.resourceTypes) : g.resourceTypes[j] = kind})

HasKey(g, key) == key \in DOMAIN g.ret.Resources

GatherSucceeded ==
  /\ Q.executed
  /\ Q.aiAction.Tool \in DOMAIN GatherTool
  /\ ~Q.toolResult.IsError
  /\ gatherCall.pc = "done"

\* a starts with b
StartsWith(a, b) == Len(b) <= Len(a) /\ SubSeq(a, 1, Len(b)) = b

\* the header of the outcome of a tool that gathers names namespace
HeaderNames(tool, result, namespace) ==
  StartsWith(result.Content[1].Text,
             GatherTool[tool].header \o namespace \o <<"':\n\n">>)

\* C24: the header of a successful outcome of a tool that gathers names the
\* namespace of the List call that was made on the cluster, whatever the
\* namespace argument was.
C24_HeaderNamesQueriedNamespace ==
  GatherSucceeded =>
    /\ Len(gatherCall.listed) = 1
    /\ HeaderNames(Q.aiAction.Tool, Q.toolResult, gatherCall.listed[1].namespace)

\* the argument key of the invocation is absent or not of type t
Defaulted(args, key, t) == key \notin DOMAIN args \/ args[key].t # t

\* C25: a tool called without a namespace, or with one that is not a string,
\* queries the cluster in namespace default; get_pod_logs called without
\* lines, or with lines that is not a number, asks for the last 100 lines; a
\* tool that gathers, called without its name filter, gathers with an empty
\* label selector.
C25_ArgumentDefaults ==
  LET args == Q.aiAction.Arguments IN
    /\ (gatherCall.pc # "idle" /\ Q.aiAction.Tool \in DOMAIN GatherTool) =>
         /\ Defaulted(args, "namespace", "string") =>
              \A j \in 1..Len(gatherCall.listed) :
                gatherCall.listed[j].namespace = <<"default">>
         /\ GatherTool[Q.aiAction.Tool].nameArg \notin DOMAIN args =>
              /\ gatherCall.labelSelector = NoText
              /\ \A j \in 1..Len(gatherCall.listed) :
                   gatherCall.listed[j].labelSelector = NoText
         /\ gatherCall.listed # << >>
    /\ logsCall.pc # "idle" =>
         /\ Q.aiAction.Tool = <<"get_pod_logs">>
         /\ Defaulted(args, "namespace", "string") => logsCall.namespace = <<"default">>
         /\ Defaulted(args, "lines", "number") => logsCall.tailLines = 100

\* a tool that gathers was called with a namespace that is a number and has
\* listed in namespace default
C25_Witness ==
  /\ gatherCall.pc = "done"
  /\ Q.aiAction.Tool \in DOMAIN GatherTool
  /\ "namespace" \in DOMAIN Q.aiAction.Arguments
  /\ Q.aiAction.Arguments["namespace"].t = "number"
  /\ gatherCall.listed[1].namespace = <<"default">>

\* C26: what ExecuteTool has returned is an error outcome exactly if it came
\* with an error, and after an error outcome the second model call is never
\* issued: the query is done with what it has.
C26_IsErrorIffError ==
  Q.executed =>
    /\ Q.toolResult.IsError <=> ~Q.toolErr.nil
    /\ Q.toolResult.IsError =>
         /\ "model2" \notin {Q.issued[j] : j \in 1..Len(Q.issued)}
         /\ Q.second = "none"
         /\ Q.pc = "Done"
    /\ ~Q.toolResult.IsError => "model2" \in {Q.issued[j] : j \in 1..Len(Q.issued)}

\* a get_pod_logs whose stream could not be opened: an error outcome with its
\* error, and a query that is done without a second model call
C26_Witness ==
  /\ QueryDone
  /\ Q.executed
  /\ logsCall.pc = "done"
  /\ ~logsCall.ret.err.nil
  /\ Q.toolResult.IsError
  /\ ~Q.toolErr.nil
  /\ Q.issued = <<"model1", "tool">>

\* the kinds the tools of a query gather
ToolKinds == {"pods", "deployments", "services", "events"}

\* how often op was issued by the query
TimesIssued(q, op) == Cardinality({j \in 1..Len(q.issued) : q.issued[j] = op})

\* C27: a query executes at most one tool, and its gather call, if it makes
\* one, is for one kind out of pods, deployments, services and events: no
\* List call is made for secrets, configmaps or replicasets, and no secrets
\* collection is in the result the raw data is made from.
C27_OneKindPerQuery ==
  /\ TimesIssued(Q, "tool") <= 1
  /\ gatherCall.pc # "idle" =>
       /\ TimesIssued(Q, "tool") = 1
       /\ Len(gatherCall.resourceTypes) = 1
       /\ gatherCall.resourceTypes[1] \in ToolKinds
       /\ Len(gatherCall.listed) = 1
       /\ gatherCall.listed[1].kind = gatherCall.resourceTypes[1]
       /\ DOMAIN gatherCall.resources
            \subseteq {gatherCall.resourceTypes[1], ErrorKey[gatherCall.resourceTypes[1]]}
       /\ "secrets" \notin DOMAIN gatherCall.returned
  /\ (QueryDone /\ Q.ret.kind = "response" /\ Q.ret.resp.RawData # NoText
        /\ gatherCall.pc = "done") =>
       /\ StartsWith(Q.ret.resp.RawData, GatherTool[Q.aiAction.Tool].header)
       /\ EndsWith(Q.ret.resp.RawData,
                   <<"':\n\n">>
                     \o MarshalIndent(gatherCall.resources, gatherCall.resourceTypes[1])
                     \o <<Newline>>)

\* a query that is done after one gather call for events, with raw data
C27_Witness ==
  /\ QueryDone
  /\ gatherCall.pc = "done"
  /\ gatherCall.resourceTypes = <<"events">>
  /\ "events" \in DOMAIN gatherCall.returned
  /\ Q.ret.resp.RawData # NoText

\* C28: in a response that QueryWithMCP returns, rawData and error are set
\* only if usedTool is, toolUsed is empty if usedTool is not, and rawData and
\* error are not both set.
C28_ResponseFields ==
  (QueryDone /\ Q.ret.kind = "response") =>
    LET r == Q.ret.resp IN
      /\ r.RawData # NoText => r.UsedTool
      /\ r.Error # NoText => r.UsedTool
      /\ ~r.UsedTool => r.ToolUsed = NoText
      /\ ~(r.RawData # NoText /\ r.Error # NoText)

\* a response after a second model call that failed: a tool was used, and
\* neither raw data nor an error is set
C28_Witness ==
  /\ QueryDone
  /\ Q.ret.kind = "response"
  /\ Q.second = "err"
  /\ Q.toolOutput # NoText
  /\ Q.ret.resp.UsedTool
  /\ Q.ret.resp.RawData = NoText
  /\ Q.ret.resp.Error = NoText

\* how far a call of QueryWithMCP has come: before the call, at the first
\* model call, at the cluster call of its tool, at the second model call, and
\* returned (or answered without a call)
Stage(q) ==
  CASE q.pc = "idle" -> 0
    [] q.pc = "Decide" -> 1
    [] q.pc = "ToolCall" -> 2
    [] q.pc = "Analyze" -> 3
    [] OTHER -> 4

\* C29: if every outbound call returns, a call of QueryWithMCP returns, with a
\* response or with an error and not both; until then it only moves forward
\* through its first model call, the cluster call of its tool and its second
\* model call, and it never comes back to one it has left.
C29_Terminates ==
  /\ [](QueryDone => /\ Q.ret.kind \in {"response", "error"}
                     /\ Q.ret.kind = "response" => Q.ret.err = NoText
                     /\ Q.ret.kind = "error" => Q.ret.resp = NoResponse /\ Q.ret.err # NoText)
  /\ [][\/ queryCall'.pc = queryCall.pc
        \/ Stage(queryCall') > Stage(queryCall)]_vars
  /\ (Q.pc \in {"Decide", "ToolCall", "Analyze"}) ~> QueryDone

\* a call that has returned after both model calls and a log stream that was
\* read to its end in as many reads as a stream takes
C29_Witness ==
  /\ QueryDone
  /\ Q.issued = <<"model1", "tool", "model2">>
  /\ logsCall.pc = "done"
  /\ Len(logsCall.result) = MaxChunks
  /\ Q.ret.kind = "response"

\* the message or description of a request is not empty
HasArgument(r) == \E k \in DOMAIN r.body : r.body[k] # NoText

\* C30: a troubleshoot or suggest-resources request of the API client that
\* carries a message passes the validation of its handler: the field the
\* handler requires is in the body, under a name that binds, and the handler
\* calls the AI service and does not answer 400.
C30_ClientPassesValidation ==
  (/\ apiRequest.pc # "idle"
   /\ apiRequest.sender = "client"
   /\ apiRequest.endpoint \in {"/api/troubleshoot", "/api/suggest-resources"}
   /\ HasArgument(apiRequest)) =>
    /\ \E k \in DOMAIN apiRequest.body : EqualFold(k, RequiredField[apiRequest.endpoint])
    /\ apiRequest.status # 400
    /\ apiRequest.argument # NoText

====
